---- MODULE Spec2Model ----
(***************************************************************************)
(* Model of cgjclicker: EnergyBot.run driving one GameSession              *)
(* (src/src/cgjclicker/bot.py), as started by the command line             *)
(* (src/src/cgjclicker/cli.py, src/src/cgjclicker/__main__.py).            *)
(*                                                                         *)
(* Time is the event loop's monotonic clock in whole seconds.  An awaited  *)
(* network call takes 0..MaxLatency seconds, asyncio.sleep(w) takes w.     *)
(* Python's None is the empty sequence <<>>, a present value v is <<v>>.   *)
(***************************************************************************)
EXTENDS Integers, Sequences, FiniteSets, TLC

\* ---------------------------------------------------------------- bounds
MaxTime == 5
MaxLatency == 2
MaxCooldown == 1
MaxJitter == 2
MaxInterval == 2
MaxClicks == 2
MaxDuration == 2
MaxStamp == 1
MaxEvents == 2
MaxX == 5
MaxDraws == 3

\* requests the sessions used on their own send to the server
MaxRequests == 3

\* ------------------------------------------------------ Python's values
None == << >>

Some(v) == << v >>

Val(o) == o[1]

\* truth value of an Optional number: None and 0 are falsy
Truthy(o) == o # None /\ Val(o) # 0

Max(a, b) == IF a >= b THEN a ELSE b

\* ------------------------------------------------------- the environment
\* what the transport answers to a request: None when it raises a
\* network-level error (httpx.RequestError), or the final response's status
\* code (redirects are followed)
Statuses == {200, 204, 500}

Responses == {None} \cup {Some(s) : s \in Statuses}

\* where the login POST lands after redirects
Landings == {"/security/login", "/"}

\* how long an awaited network call takes: no time or some time
Latencies == {0, MaxLatency}

\* what extract_next_click_time does with the page: it returns a duration
\* >= 0, or (None here) it raises an exception its except clause does not
\* name, as TypeError for a counter block that decodes to a number
Extractions == {None} \cup {Some(d) : d \in 0..MaxCooldown}

\* humaniser() is 0.8 * ((2.9/e)^x + e^-x) for x in [0, 113]: at least 1
Jitters == 1..MaxJitter

\* ------------------------------------------------- the run configuration
Intervals == {None} \cup {Some(i) : i \in 0..MaxInterval}

MaxClicksSet == {None} \cup {Some(n) : n \in 0..MaxClicks}

Durations == {None} \cup {Some(d) : d \in 0..MaxDuration}

\* -------------------------------------------------- the cooldown extractor
\* The page is modelled after the regular expression search and the JSON
\* decoding: whether the counter element is found, and what its attribute
\* decodes to.

\* what event.get("start-date") / event.get("end-date") finds: nothing (key
\* missing or null), "", a number, a string that is no ISO date, or an ISO
\* date: t seconds, with or without a UTC offset
NoDate == [kind |-> "absent", t |-> 0, aware |-> FALSE]

DateValues ==
    {[kind |-> k, t |-> 0, aware |-> FALSE] :
        k \in {"absent", "empty", "number", "malformed"}}
    \cup {[kind |-> "iso", t |-> t, aware |-> a] : t \in 0..MaxStamp, a \in BOOLEAN}

\* an element of the decoded array: an object with its two dates, or
\* anything else (a number, a string, a list, null)
Scalar == [kind |-> "scalar", start |-> NoDate, end |-> NoDate]

Events ==
    {Scalar} \cup {[kind |-> "object", start |-> s, end |-> e] :
                      s \in DateValues, e \in DateValues}

\* the elements that follow the first one
Followers ==
    {Scalar,
     [kind |-> "object", start |-> NoDate, end |-> NoDate],
     [kind |-> "object", start |-> [kind |-> "iso", t |-> 0, aware |-> TRUE],
                         end |-> [kind |-> "iso", t |-> MaxStamp, aware |-> TRUE]]}

\* what the attribute decodes to: not JSON at all, a falsy value (null,
\* false, 0, "", [], {}), another number or true, a non-empty string, a
\* non-empty object, or a non-empty array
Payloads ==
    {[kind |-> k, events |-> << >>] :
        k \in {"invalid", "falsy", "number", "string", "object"}}
    \cup {[kind |-> "array", events |-> << first >> \o rest] :
            first \in Events,
            rest \in UNION {[1..n -> Followers] : n \in 0..(MaxEvents - 1)}}

NoCounter == [counter |-> FALSE, payload |-> [kind |-> "invalid", events |-> << >>]]

Pages == {NoCounter} \cup {[counter |-> TRUE, payload |-> p] : p \in Payloads}

\* the function returns timedelta(seconds = d) / an exception leaves it
Returned(d) == [raised |-> "none", value |-> d]

Raised(e) == [raised |-> e, value |-> 0]

\* `not start_date_str`: None and "" are falsy
FalsyDate(d) == d.kind \in {"absent", "empty"}

\* `event = events[0]`
FirstEvent_last(events) == events[Len(events)]

FirstEvent(events) == events[1]

\* `timeout_duration = end - start`, in seconds
Duration_swapped(start, end) == start.t - end.t

Duration(start, end) == end.t - start.t

\* lines 63-83, inside the try: the except clause names JSONDecodeError,
\* KeyError and ValueError, every other exception leaves the function
FromEvent(event) ==
    IF event.kind # "object" THEN Raised("AttributeError")
    ELSE IF FalsyDate(event.start) \/ FalsyDate(event.end) THEN Returned(0)
    ELSE IF event.start.kind = "number" THEN Raised("TypeError")
    ELSE IF event.start.kind = "malformed" THEN Returned(0)
    ELSE IF event.end.kind = "number" THEN Raised("TypeError")
    ELSE IF event.end.kind = "malformed" THEN Returned(0)
    ELSE IF event.start.aware # event.end.aware THEN Raised("TypeError")
    ELSE IF Duration(event.start, event.end) <= 0 THEN Returned(0)
    ELSE Returned(Duration(event.start, event.end))

\* extract_next_click_time
ExtractNextClickTime(page) ==
    IF ~page.counter THEN Returned(0)
    ELSE LET json == page.payload IN
        CASE json.kind = "invalid" -> Returned(0)
          [] json.kind = "falsy" -> Returned(0)
          [] json.kind = "number" -> Raised("TypeError")
          [] json.kind = "string" -> Raised("AttributeError")
          [] json.kind = "object" -> Returned(0)
          [] json.kind = "array" -> FromEvent(FirstEvent(json.events))

\* ------------------------------------------------------ the jitter
\* humaniser() for a sampled x, in thousandths and in integer arithmetic:
\* a lower and an upper bound of the real value, from 2.718 < e < 2.719 and
\* from rounding down and up.  x is a whole number here, 0..MaxX of the
\* range [0, 113] that random.uniform(0, 113) samples.
RECURSIVE ExpLo(_), ExpHi(_), PowLo(_), PowHi(_)

\* math.exp(x)
ExpLo(x) == IF x = 0 THEN 1000 ELSE (ExpLo(x - 1) * 2718) \div 1000

ExpHi(x) == IF x = 0 THEN 1000 ELSE (ExpHi(x - 1) * 2719) \div 1000 + 1

\* 2.9 ** x
PowLo(x) == IF x = 0 THEN 1000 ELSE (PowLo(x - 1) * 29) \div 10

PowHi(x) == IF x = 0 THEN 1000 ELSE (PowHi(x - 1) * 29 + 9) \div 10

\* 1.2 * (2.9**x + 1) / (math.exp(x) * 1.5), with 1000 * 1.2 / 1.5 = 800
Humaniser(x) ==
    [x |-> x,
     lo |-> (800 * (PowLo(x) + 1000)) \div ExpHi(x),
     hi |-> (800 * (PowHi(x) + 1000)) \div ExpLo(x) + 1]

\* --------------------------------------------------------------- Session
\* response.raise_for_status(): raises httpx.HTTPStatusError on an error
\* status; HTTPStatusError is not an httpx.RequestError
RaisesForStatus(resp) == resp # None /\ Val(resp) >= 400

\* GameSession.login: the exception it raises ("none": it returns) and the
\* value it returns
Login(resp, landing) ==
    IF resp = None THEN [raised |-> "none", value |-> FALSE]
    ELSE IF RaisesForStatus(resp)
    THEN [raised |-> "HTTPStatusError", value |-> FALSE]
    ELSE [raised |-> "none", value |-> landing # "/security/login"]

\* GameSession.click: likewise
Click(resp) ==
    IF resp = None THEN [raised |-> "none", value |-> FALSE]
    ELSE IF RaisesForStatus(resp)
    THEN [raised |-> "HTTPStatusError", value |-> FALSE]
    ELSE [raised |-> "none", value |-> Val(resp) \in {200, 302}]

\* GameSession.get_game_state: likewise; the value is None or the dict, of
\* which run reads next_click_in_seconds only
GetGameState(resp, delta) ==
    IF resp = None THEN [raised |-> "none", value |-> None]
    ELSE IF RaisesForStatus(resp)
    THEN [raised |-> "HTTPStatusError", value |-> None]
    ELSE IF delta = None THEN [raised |-> "TypeError", value |-> None]
    ELSE [raised |-> "none",
          value |-> Some([next_click_in_seconds |->
                              IF Val(delta) # 0 THEN delta ELSE None])]

\* GameSession.__aexit__: the number of aclose() calls after it
AExit_never(cl, rel) == rel

AExit(cl, rel) == IF cl = "open" THEN rel + 1 ELSE rel

\* `if not self.client: raise RuntimeError(...)`, first statement of login,
\* click and get_game_state
NotInitialized_never(cl) == FALSE

NotInitialized(cl) == cl = "None"

\* a method is left by an exception before self.client sends anything
Unsent(e, v, s) == [raised |-> e, value |-> v, sent |-> 0, cookies |-> s.cookies]

\* self.client.get / self.client.post cannot send: None has no such
\* attribute, a closed httpx.AsyncClient raises RuntimeError
CannotSend(cl) == cl # "open"

NoTransport(cl) == IF cl = "None" THEN "AttributeError" ELSE "RuntimeError"

\* login() on session s: the exception raised, the value returned, the
\* requests sent and self.cookies after it; get and post are what the
\* transport answers to the two requests
LoginCall(s, get, post, landing) ==
    IF NotInitialized(s.client) THEN Unsent("RuntimeError", FALSE, s)
    ELSE IF CannotSend(s.client) THEN Unsent(NoTransport(s.client), FALSE, s)
    ELSE IF get = None \/ RaisesForStatus(get)
    THEN [raised |-> Login(get, landing).raised, value |-> FALSE, sent |-> 1,
          cookies |-> s.cookies]
    ELSE [raised |-> Login(post, landing).raised,
          value |-> Login(post, landing).value,
          sent |-> 2,
          cookies |-> IF post = None \/ RaisesForStatus(post) THEN s.cookies
                      ELSE "jar"]

\* click() on session s
ClickCall(s, resp) ==
    IF NotInitialized(s.client) THEN Unsent("RuntimeError", FALSE, s)
    ELSE IF CannotSend(s.client) THEN Unsent(NoTransport(s.client), FALSE, s)
    ELSE [raised |-> Click(resp).raised, value |-> Click(resp).value, sent |-> 1,
          cookies |-> s.cookies]

\* get_game_state() on session s
GetGameStateCall(s, resp, delta) ==
    IF NotInitialized(s.client) THEN Unsent("RuntimeError", None, s)
    ELSE IF CannotSend(s.client) THEN Unsent(NoTransport(s.client), None, s)
    ELSE [raised |-> GetGameState(resp, delta).raised,
          value |-> GetGameState(resp, delta).value,
          sent |-> 1,
          cookies |-> s.cookies]

\* ------------------------------------------------------------- Scheduler
\* `if not await session.login(): ... return`
LoginAborts_never(ok) == FALSE

LoginAborts(ok) == ~ok

\* `if max_clicks and self.click_count >= max_clicks: break`
ReachedMaxClicks_gt(mc, cc) == Truthy(mc) /\ cc > Val(mc)

ReachedMaxClicks(mc, cc) == Truthy(mc) /\ cc >= Val(mc)

\* `if duration: elapsed = ...; if elapsed >= duration: break`
ReachedDuration_gt(d, elapsed) == Truthy(d) /\ elapsed > Val(d)

ReachedDuration(d, elapsed) == Truthy(d) /\ elapsed >= Val(d)

\* `server_wait_time = 0; if state and state.get(...): ... = max(0, ...)`
ServerWaitTime_penalty(st) ==
    IF st = None THEN 1
    ELSE IF Truthy(Val(st).next_click_in_seconds)
    THEN Max(0, Val(Val(st).next_click_in_seconds))
    ELSE 0

ServerWaitTime(st) ==
    IF st # None /\ Truthy(Val(st).next_click_in_seconds)
    THEN Max(0, Val(Val(st).next_click_in_seconds))
    ELSE 0

\* `server_wait_time += human_delay; wait_time = server_wait_time;
\*  if click_interval is not None and click_interval > 0: wait_time = max(..)`
WaitTime_nofloor(sw, jit, ci) == sw + jit

WaitTime(sw, jit, ci) ==
    IF ci # None /\ Val(ci) > 0 THEN Max(sw + jit, Val(ci)) ELSE sw + jit

\* `if success: self.click_count += 1`
CountAfterClick_always(cc, ok) == cc + 1

CountAfterClick(cc, ok) == IF ok THEN cc + 1 ELSE cc

\* the try block of run: the statements of the while loop
InTry(p) == p \in {"LoopTop", "Polling", "Waiting", "Acting"}

\* `finally:` prints the final report: the number of reports after it
Finally_silent(r) == r

Finally(r) == r + 1

\* where control goes when an interrupt is raised at p: the except clause
\* encloses the whole while loop, and outside the try nothing catches it
AfterInterrupt_resume(p) == IF InTry(p) THEN "LoopTop" ELSE "Stopped"

AfterInterrupt(p) == "Stopped"

\* ----------------------------------------------------------------- state
VARIABLES
    pc,               \* where run is: NotStarted, Authenticating, InitialState,
                      \* LoopTop, Polling, Waiting, Acting, Stopped
    click_count,      \* EnergyBot.click_count
    client,           \* GameSession.client: "None", "open", "closed"
    click_interval,   \* run's arguments
    max_clicks,
    duration,
    now,              \* asyncio.get_event_loop().time()
    start_time,       \* run's local, None before the loop
    state,            \* run's local: the last get_game_state result
    human_delay,      \* run's local: the last humaniser() value
    wait_time,        \* run's local
    released,         \* history: aclose() calls of this run
    reports,          \* history: final reports printed by this run
    calls,            \* history: calls started, per Session method, and sleeps
    oks,              \* history: click() calls that returned True
    fails,            \* history: click() calls that returned False
    loginResult,      \* history: what login() returned, None before
    reason,           \* history: why the run ended
    exc,              \* history: the exception that left run, "none" if none
    raisedBy,         \* history: the Session method that raised, "none"
    leftAt,           \* history: where run was when it ended, "none" before
    checkElapsed,     \* history: elapsed at the iteration's stop check
    fetchLatency,     \* history: how long the iteration's poll took
    html,             \* the page last given to extract_next_click_time
    next_click_delta, \* what that call did: the exception raised, the value
    draws,            \* the x sampled by the successive humaniser() calls
    session,          \* a GameSession used on its own: client and cookies
    requests,         \* history: requests that session sent to the server
    outcome           \* what the last method call on that session did

vars == << pc, click_count, client, click_interval, max_clicks, duration, now,
           start_time, state, human_delay, wait_time, released, reports, calls,
           oks, fails, loginResult, reason, exc, raisedBy, leftAt,
           checkElapsed, fetchLatency, html, next_click_delta, draws, session,
           requests, outcome >>

\* the bot and its run
bot == << pc, click_count, client, click_interval, max_clicks, duration, now,
          start_time, state, human_delay, wait_time, released, reports, calls,
          oks, fails, loginResult, reason, exc, raisedBy, leftAt,
          checkElapsed, fetchLatency >>

\* the functions and the session used on their own, which run does not touch
extraction == << html, next_click_delta >>

standalone == << session, requests, outcome >>

apart == << extraction, draws, standalone >>

config == << click_interval, max_clicks, duration >>

locals == << state, human_delay, wait_time >>

iter == << checkElapsed, fetchLatency >>

NoCalls == [login |-> 0, get_game_state |-> 0, sleep |-> 0, click |-> 0]

Called(m) == calls' = [calls EXCEPT ![m] = @ + 1]

Elapsed == now - Val(start_time)

\* EnergyBot.__init__, before run is called
Init ==
    /\ pc = "NotStarted"
    /\ click_count = 0
    /\ client = "None"
    /\ click_interval = None
    /\ max_clicks = None
    /\ duration = None
    /\ now = 0
    /\ start_time = None
    /\ state = None
    /\ human_delay = 0
    /\ wait_time = 0
    /\ released = 0
    /\ reports = 0
    /\ calls = NoCalls
    /\ oks = 0
    /\ fails = 0
    /\ loginResult = None
    /\ reason = "none"
    /\ exc = "none"
    /\ raisedBy = "none"
    /\ leftAt = "none"
    /\ checkElapsed = 0
    /\ fetchLatency = 0
    /\ html = None
    /\ next_click_delta = None
    /\ draws = << >>
    /\ session = [client |-> "None", cookies |-> "None"]
    /\ requests = 0
    /\ outcome = None

\* run is left: the finally clause when inside the try, then __aexit__;
\* its locals are gone
Leave(why, e) ==
    /\ pc' = "Stopped"
    /\ state' = None
    /\ human_delay' = 0
    /\ wait_time' = 0
    /\ checkElapsed' = 0
    /\ fetchLatency' = 0
    /\ reports' = IF InTry(pc) THEN Finally(reports) ELSE reports
    /\ released' = AExit(client, released)
    /\ client' = IF released' > released THEN "closed" ELSE client
    /\ reason' = why
    /\ exc' = e
    /\ leftAt' = pc

\* run(click_interval, max_clicks, duration): __aenter__, then login starts
Run(ci, mc, d) ==
    /\ pc = "NotStarted"
    /\ click_interval' = ci
    /\ max_clicks' = mc
    /\ duration' = d
    /\ client' = "open"
    /\ Called("login")
    /\ pc' = "Authenticating"
    /\ UNCHANGED << click_count, now, start_time, locals, released, reports, leftAt,
                    oks, fails, loginResult, reason, exc, raisedBy, iter >>
    /\ UNCHANGED apart

\* login returns or raises; on True the initial get_game_state starts
LoginReturns(resp, landing, lat) ==
    /\ pc = "Authenticating"
    /\ now + lat <= MaxTime
    /\ now' = now + lat
    /\ LET r == Login(resp, landing) IN
        IF r.raised # "none" THEN
            /\ Leave("exception", r.raised)
            /\ raisedBy' = "login"
            /\ UNCHANGED << loginResult, calls >>
        ELSE IF LoginAborts(r.value) THEN
            /\ Leave("login_failed", "none")
            /\ loginResult' = Some(r.value)
            /\ UNCHANGED << raisedBy, calls >>
        ELSE
            /\ loginResult' = Some(r.value)
            /\ Called("get_game_state")
            /\ pc' = "InitialState"
            /\ UNCHANGED << client, released, reports, leftAt, reason, exc, raisedBy,
                            locals, iter >>
    /\ UNCHANGED << click_count, config, start_time, oks, fails >>
    /\ UNCHANGED apart

\* the initial get_game_state returns or raises; start_time is taken
InitialStateReturns(resp, delta, lat) ==
    /\ pc = "InitialState"
    /\ now + lat <= MaxTime
    /\ now' = now + lat
    /\ LET r == GetGameState(resp, delta) IN
        IF r.raised # "none" THEN
            /\ Leave("exception", r.raised)
            /\ raisedBy' = "get_game_state"
            /\ UNCHANGED start_time
        ELSE
            /\ state' = r.value
            /\ start_time' = Some(now')
            /\ pc' = "LoopTop"
            /\ UNCHANGED << client, released, reports, leftAt, reason, exc, raisedBy,
                            human_delay, wait_time, iter >>
    /\ UNCHANGED << click_count, config, calls, oks, fails, loginResult >>
    /\ UNCHANGED apart

\* top of the loop, a stop condition holds: break
Break ==
    /\ pc = "LoopTop"
    /\ \/ /\ ReachedMaxClicks(max_clicks, click_count)
          /\ Leave("max_clicks", "none")
       \/ /\ ~ReachedMaxClicks(max_clicks, click_count)
          /\ ReachedDuration(duration, Elapsed)
          /\ Leave("duration", "none")
    /\ UNCHANGED << click_count, config, now, start_time, calls, oks, fails,
                    loginResult, raisedBy >>
    /\ UNCHANGED apart

\* top of the loop, no stop condition holds: get_game_state starts
Poll ==
    /\ pc = "LoopTop"
    /\ ~ReachedMaxClicks(max_clicks, click_count)
    /\ ~ReachedDuration(duration, Elapsed)
    /\ Called("get_game_state")
    /\ checkElapsed' = Elapsed
    /\ pc' = "Polling"
    /\ UNCHANGED << click_count, client, config, now, start_time, locals,
                    released, reports, leftAt, oks, fails, loginResult, reason, exc,
                    raisedBy, fetchLatency >>
    /\ UNCHANGED apart

\* get_game_state returns or raises; the wait is computed and sleep starts
PollReturns(resp, delta, lat, jit) ==
    /\ pc = "Polling"
    /\ now + lat <= MaxTime
    /\ now' = now + lat
    /\ LET r == GetGameState(resp, delta) IN
        IF r.raised # "none" THEN
            /\ Leave("exception", r.raised)
            /\ raisedBy' = "get_game_state"
            /\ UNCHANGED calls
        ELSE
            /\ state' = r.value
            /\ human_delay' = jit
            /\ wait_time' = WaitTime(ServerWaitTime(r.value), jit, click_interval)
            /\ fetchLatency' = lat
            /\ IF wait_time' > 0 THEN Called("sleep") ELSE UNCHANGED calls
            /\ pc' = "Waiting"
            /\ UNCHANGED << client, released, reports, leftAt, reason, exc, raisedBy,
                            checkElapsed >>
    /\ UNCHANGED << click_count, config, start_time, oks, fails, loginResult >>
    /\ UNCHANGED apart

\* the sleep is over: click starts
Wake ==
    /\ pc = "Waiting"
    /\ now + wait_time <= MaxTime
    /\ now' = now + wait_time
    /\ Called("click")
    /\ pc' = "Acting"
    /\ UNCHANGED << click_count, client, config, start_time, locals, released,
                    reports, leftAt, oks, fails, loginResult, reason, exc, raisedBy,
                    iter >>
    /\ UNCHANGED apart

\* click returns or raises; the counter is updated
ClickReturns(resp, lat) ==
    /\ pc = "Acting"
    /\ now + lat <= MaxTime
    /\ now' = now + lat
    /\ LET r == Click(resp) IN
        IF r.raised # "none" THEN
            /\ Leave("exception", r.raised)
            /\ raisedBy' = "click"
            /\ UNCHANGED << click_count, oks, fails >>
        ELSE
            /\ click_count' = CountAfterClick(click_count, r.value)
            /\ oks' = IF r.value THEN oks + 1 ELSE oks
            /\ fails' = IF r.value THEN fails ELSE fails + 1
            /\ pc' = "LoopTop"
            /\ UNCHANGED << client, released, reports, leftAt, reason, exc, raisedBy,
                            locals, iter >>
    /\ UNCHANGED << config, start_time, calls, loginResult >>
    /\ UNCHANGED apart

\* the operator interrupts the run: KeyboardInterrupt is raised in run, or
\* asyncio.run cancels the task and CancelledError is raised in it
Interrupt(kind) ==
    /\ pc \notin {"NotStarted", "Stopped"}
    /\ IF AfterInterrupt(pc) = "Stopped" THEN
          Leave("interrupt",
                IF InTry(pc) /\ kind = "KeyboardInterrupt" THEN "none" ELSE kind)
       ELSE
          /\ pc' = AfterInterrupt(pc)
          /\ UNCHANGED << client, released, reports, leftAt, exc, locals, iter >>
          /\ reason' = "interrupt"
    /\ UNCHANGED << click_count, config, now, start_time, calls, oks, fails,
                    loginResult, raisedBy >>
    /\ UNCHANGED apart

Next ==
    \/ \E ci \in Intervals, mc \in MaxClicksSet, d \in Durations : Run(ci, mc, d)
    \/ \E resp \in Responses, landing \in Landings, lat \in Latencies :
          LoginReturns(resp, landing, lat)
    \/ \E resp \in Responses, delta \in Extractions, lat \in Latencies :
          InitialStateReturns(resp, delta, lat)
    \/ Break
    \/ Poll
    \/ \E resp \in Responses, delta \in Extractions, lat \in Latencies, jit \in Jitters :
          PollReturns(resp, delta, lat, jit)
    \/ Wake
    \/ \E resp \in Responses, lat \in Latencies : ClickReturns(resp, lat)
    \/ \E kind \in {"KeyboardInterrupt", "CancelledError"} : Interrupt(kind)

Spec == Init /\ [][Next]_vars

\* --------------------------------------------- run called more than once
\* run is called again on the same EnergyBot after the previous call is
\* over: a new GameSession and new locals; __init__ is not executed again
Rerun(ci, mc, d) ==
    /\ pc = "Stopped"
    /\ click_interval' = ci
    /\ max_clicks' = mc
    /\ duration' = d
    /\ client' = "open"
    /\ calls' = [NoCalls EXCEPT !.login = 1]
    /\ pc' = "Authenticating"
    /\ start_time' = None
    /\ released' = 0
    /\ reports' = 0
    /\ oks' = 0
    /\ fails' = 0
    /\ loginResult' = None
    /\ reason' = "none"
    /\ exc' = "none"
    /\ raisedBy' = "none"
    /\ leftAt' = "none"
    /\ UNCHANGED << click_count, now, locals, iter >>
    /\ UNCHANGED apart

NextReuse ==
    \/ Next
    \/ \E ci \in Intervals, mc \in MaxClicksSet, d \in Durations : Rerun(ci, mc, d)

SpecReuse == Init /\ [][NextReuse]_vars

\* ------------------------------------- the extractor called on its own
\* extract_next_click_time(html)
Extract(page) ==
    /\ html' = Some(page)
    /\ next_click_delta' = Some(ExtractNextClickTime(page))
    /\ UNCHANGED << bot, draws, standalone >>

NextExtract == \E page \in Pages : Extract(page)

SpecExtract == Init /\ [][NextExtract]_vars

\* ---------------------------------------- the jitter called on its own
\* humaniser(), with x the value random.uniform returns
Humanise(x) ==
    /\ Len(draws) < MaxDraws
    /\ draws' = Append(draws, Humaniser(x))
    /\ UNCHANGED << bot, extraction, standalone >>

NextJitter == \E x \in 0..MaxX : Humanise(x)

SpecJitter == Init /\ [][NextJitter]_vars

\* ------------------------------------------ the loop however long it runs
\* The while loop has no bound of its own. From MaxTime on the clock of the
\* model stays at MaxTime and the histories stop counting; click_count stays
\* exact up to MaxClicks + 1, which is beyond every max_clicks of the model.
Late == now = MaxTime

\* top of the loop, no stop condition holds: get_game_state starts
PollLate ==
    /\ pc = "LoopTop"
    /\ Late
    /\ ~ReachedMaxClicks(max_clicks, click_count)
    /\ ~ReachedDuration(duration, Elapsed)
    /\ checkElapsed' = Elapsed
    /\ pc' = "Polling"
    /\ UNCHANGED << click_count, client, config, now, start_time, locals,
                    released, reports, leftAt, calls, oks, fails, loginResult,
                    reason, exc, raisedBy, fetchLatency >>
    /\ UNCHANGED apart

\* get_game_state returns or raises; the wait is computed and sleep starts
PollReturnsLate(resp, delta, jit) ==
    /\ pc = "Polling"
    /\ Late
    /\ LET r == GetGameState(resp, delta) IN
        IF r.raised # "none" THEN
            /\ Leave("exception", r.raised)
            /\ raisedBy' = "get_game_state"
        ELSE
            /\ state' = r.value
            /\ human_delay' = jit
            /\ wait_time' = WaitTime(ServerWaitTime(r.value), jit, click_interval)
            /\ fetchLatency' = 0
            /\ pc' = "Waiting"
            /\ UNCHANGED << client, released, reports, leftAt, reason, exc, raisedBy,
                            checkElapsed >>
    /\ UNCHANGED << click_count, config, now, start_time, calls, oks, fails,
                    loginResult >>
    /\ UNCHANGED apart

\* the sleep is over at MaxTime or later: click starts
WakeLate ==
    /\ pc = "Waiting"
    /\ now + wait_time > MaxTime
    /\ now' = MaxTime
    /\ pc' = "Acting"
    /\ UNCHANGED << click_count, client, config, start_time, locals, released,
                    reports, leftAt, calls, oks, fails, loginResult, reason, exc,
                    raisedBy, iter >>
    /\ UNCHANGED apart

\* click returns or raises; the counter is updated
ClickReturnsLate(resp) ==
    /\ pc = "Acting"
    /\ Late
    /\ LET r == Click(resp) IN
        IF r.raised # "none" THEN
            /\ Leave("exception", r.raised)
            /\ raisedBy' = "click"
            /\ UNCHANGED click_count
        ELSE
            /\ click_count' = IF click_count > MaxClicks THEN click_count
                              ELSE CountAfterClick(click_count, r.value)
            /\ pc' = "LoopTop"
            /\ UNCHANGED << client, released, reports, leftAt, reason, exc, raisedBy,
                            locals, iter >>
    /\ UNCHANGED << config, now, start_time, calls, oks, fails, loginResult >>
    /\ UNCHANGED apart

\* the steps run takes by itself: each awaited call returns, each sleep ends
Proceed ==
    \/ /\ ~Late
       /\ \/ \E ci \in Intervals, mc \in MaxClicksSet, d \in Durations : Run(ci, mc, d)
          \/ \E resp \in Responses, landing \in Landings, lat \in Latencies :
                LoginReturns(resp, landing, lat)
          \/ \E resp \in Responses, delta \in Extractions, lat \in Latencies :
                InitialStateReturns(resp, delta, lat)
          \/ Poll
          \/ \E resp \in Responses, delta \in Extractions, lat \in Latencies,
                jit \in Jitters : PollReturns(resp, delta, lat, jit)
          \/ Wake
          \/ \E resp \in Responses, lat \in Latencies : ClickReturns(resp, lat)
    \/ Break
    \/ PollLate
    \/ \E resp \in Responses, delta \in Extractions, jit \in Jitters :
          PollReturnsLate(resp, delta, jit)
    \/ WakeLate
    \/ \E resp \in Responses : ClickReturnsLate(resp)

\* a click call returns True
ClickSucceeds ==
    \E resp \in Responses :
        /\ Click(resp).raised = "none"
        /\ Click(resp).value
        /\ \/ ~Late /\ \E lat \in Latencies : ClickReturns(resp, lat)
           \/ ClickReturnsLate(resp)

LiveNext ==
    \/ Proceed
    \/ \E kind \in {"KeyboardInterrupt", "CancelledError"} : Interrupt(kind)

\* every awaited call returns and every sleep ends; the operator may or may
\* not interrupt
LiveSpec == Init /\ [][LiveNext]_vars /\ WF_vars(Proceed)

\* ------------------------------------------ the session used on its own
\* GameSession(email, password, cookies=ck): no client yet
NewSession(ck) ==
    /\ session' = [client |-> "None", cookies |-> ck]
    /\ outcome' = None
    /\ UNCHANGED << bot, extraction, draws, requests >>

\* __aenter__: a new httpx.AsyncClient
AEnter ==
    /\ session' = [session EXCEPT !.client = "open"]
    /\ outcome' = None
    /\ UNCHANGED << bot, extraction, draws, requests >>

\* __aexit__: the client, if any, is closed
AExitSession ==
    /\ session' = [session EXCEPT !.client =
                       IF AExit(@, 0) > 0 THEN "closed" ELSE @]
    /\ outcome' = None
    /\ UNCHANGED << bot, extraction, draws, requests >>

\* method m was called on the session and did r
Returns(m, r) ==
    /\ requests + r.sent <= MaxRequests
    /\ requests' = requests + r.sent
    /\ session' = [session EXCEPT !.cookies = r.cookies]
    /\ outcome' = Some([method |-> m, raised |-> r.raised, value |-> r.value])
    /\ UNCHANGED << bot, extraction, draws >>

CallLogin(get, post, landing) ==
    Returns("login", LoginCall(session, get, post, landing))

CallClick(resp) == Returns("click", ClickCall(session, resp))

CallGetGameState(resp, delta) ==
    Returns("get_game_state", GetGameStateCall(session, resp, delta))

NextSession ==
    \/ \E ck \in {"None", "given"} : NewSession(ck)
    \/ AEnter
    \/ AExitSession
    \/ \E get \in Responses, post \in Responses, landing \in Landings :
          CallLogin(get, post, landing)
    \/ \E resp \in Responses : CallClick(resp)
    \/ \E resp \in Responses, delta \in Extractions : CallGetGameState(resp, delta)

SpecSession == Init /\ [][NextSession]_vars

\* ------------------------------------------------------------ properties
InLoopCall == pc \in {"Polling", "Waiting", "Acting"}

Running == pc \notin {"NotStarted", "Stopped"}

\* C1: in a run with max_clicks = N >= 1 whose login succeeded and whose
\* click calls all succeeded, never more than N click calls are started, the
\* loop goes no further than its stop check once N clicks are counted, and a
\* run stopped by the count has performed exactly N actions.
C1_StopByCount ==
    (Truthy(max_clicks) /\ fails = 0 /\ raisedBy # "click") =>
        /\ calls.click <= Val(max_clicks)
        /\ (oks = Val(max_clicks) => pc \in {"LoopTop", "Stopped"})
        /\ (reason = "max_clicks" =>
                /\ loginResult = Some(TRUE)
                /\ oks = Val(max_clicks)
                /\ calls.click = Val(max_clicks))

C1_Witness ==
    /\ pc = "Stopped"
    /\ reason = "max_clicks"
    /\ max_clicks = Some(MaxClicks)
    /\ oks = MaxClicks
    /\ fails = 0

\* C2: once login has returned False the run is over: it has stopped for
\* that reason without raising, no get_game_state or click call and no
\* sleep was started, and the action counter is still 0.
C2_LoginFailure ==
    loginResult = Some(FALSE) =>
        /\ pc = "Stopped"
        /\ reason = "login_failed"
        /\ exc = "none"
        /\ calls.get_game_state = 0
        /\ calls.sleep = 0
        /\ calls.click = 0
        /\ click_count = 0

C2_Witness ==
    /\ loginResult = Some(FALSE)
    /\ pc = "Stopped"
    /\ calls.login = 1

\* C3: the action counter always equals the number of click calls of the
\* run that returned True; a click call that returns False leaves it
\* unchanged and the loop goes on to its stop check; the counter changes
\* only by +1, and only when a click call returns True.
C3_ActionFailure ==
    [][ /\ click_count' = oks'
        /\ (fails' # fails =>
                /\ click_count' = click_count
                /\ pc = "Acting"
                /\ pc' = "LoopTop")
        /\ (click_count' # click_count =>
                /\ click_count' = click_count + 1
                /\ oks' = oks + 1
                /\ pc = "Acting"
                /\ pc' = "LoopTop") ]_vars

\* a failed click, then a new poll, and a successful click as well
C3_Witness ==
    /\ fails = 1
    /\ oks = 1
    /\ click_count = 1
    /\ pc = "Polling"

\* C4: the transport handle opened by the run is closed exactly once when
\* the run has ended, whatever ended it, and is open and not yet closed
\* while the run is going.
C4_ReleasedOnce ==
    /\ released <= 1
    /\ (pc = "Stopped" => released = 1 /\ client = "closed")
    /\ (Running => released = 0 /\ client = "open")

\* the exit by an exception that escaped a Session method
C4_Witness ==
    /\ pc = "Stopped"
    /\ reason = "exception"
    /\ exc = "HTTPStatusError"
    /\ raisedBy = "click"
    /\ leftAt = "Acting"
    /\ released = 1

PolledCooldown ==
    IF state = None THEN 0
    ELSE IF Val(state).next_click_in_seconds = None THEN 0
    ELSE Val(Val(state).next_click_in_seconds)

\* C6: while the run sleeps, and until the iteration's click returns, the
\* wait is max(max(0, cooldown) + jitter, floor) when click_interval is
\* given and max(0, cooldown) + jitter when it is None, with jitter >= 0.
C6_WaitComputation ==
    pc \in {"Waiting", "Acting"} =>
        /\ human_delay >= 0
        /\ wait_time =
              (IF click_interval # None
               THEN Max(Max(0, PolledCooldown) + human_delay, Val(click_interval))
               ELSE Max(0, PolledCooldown) + human_delay)

\* the floor decides: cooldown 0, jitter 1, floor MaxInterval
C6_Witness ==
    /\ pc = "Waiting"
    /\ state # None
    /\ PolledCooldown = 0
    /\ human_delay = 1
    /\ click_interval = Some(MaxInterval)
    /\ wait_time = MaxInterval

\* C7: a get_game_state call that returns None does not end the run: a
\* poll ends the run only by raising or by an interrupt; after a poll that
\* returned None the wait is the one of a server cooldown of 0, and the
\* sleep is followed by the click call.
C7_PollFailureGoesOn ==
    [][ /\ (pc \in {"InitialState", "Polling"} /\ pc' = "Stopped" =>
                \/ reason' = "interrupt"
                \/ reason' = "exception" /\ raisedBy' = "get_game_state")
        /\ (pc = "InitialState" /\ pc' # "Stopped" => pc' = "LoopTop")
        /\ (pc = "Polling" /\ pc' # "Stopped" =>
                /\ pc' = "Waiting"
                /\ (state' = None =>
                        wait_time' =
                            (IF click_interval # None
                             THEN Max(human_delay', Val(click_interval))
                             ELSE human_delay')))
        /\ (pc = "Waiting" /\ pc' # "Stopped" =>
                pc' = "Acting" /\ state' = state /\ now' = now + wait_time)
      ]_vars

\* the poll returned None, the run slept and the click call is on its way
C7_Witness ==
    /\ pc = "Acting"
    /\ state = None
    /\ calls.get_game_state = 2
    /\ calls.click = 1

\* C8 as stated: whatever the transport answers, a network-level error or
\* an HTTP error status, it makes no Session method raise and ends no run.
C8_FailuresAreSentinels == exc # "HTTPStatusError"

C10_InterruptIsTerminal ==
    [][ /\ (reason' = "interrupt" => pc' = "Stopped" /\ calls' = calls)
        /\ (reason = "interrupt" => pc' = pc /\ calls' = calls) ]_vars

C10_Witness ==
    /\ pc = "Stopped"
    /\ reason = "interrupt"
    /\ leftAt = "Polling"
    /\ exc = "CancelledError"

\* the first event of the page's array has two ISO dates that can be
\* subtracted
WellFormedFirst(page) ==
    /\ page.counter
    /\ page.payload.kind = "array"
    /\ page.payload.events[1].kind = "object"
    /\ page.payload.events[1].start.kind = "iso"
    /\ page.payload.events[1].end.kind = "iso"
    /\ page.payload.events[1].start.aware = page.payload.events[1].end.aware

\* C11 as stated: extract_next_click_time raises for no page, and returns
\* zero whenever the counter block is there without a well-formed first
\* event.
C11_NeverRaises ==
    html # None =>
        /\ Val(next_click_delta).raised = "none"
        /\ (Val(html).counter /\ ~WellFormedFirst(Val(html)) =>
                Val(next_click_delta).value = 0)

C13_MetricsPerRun ==
    /\ (pc = "Authenticating" => click_count = 0)
    /\ (reason = "max_clicks" /\ fails = 0 => oks = Val(max_clicks))

\* C14 as stated: the jitter decreases with the sampled x, so that of two
\* draws the one with the larger x is not the larger value, and every draw
\* is non-negative and not above the value at x = 0.
C14_Decreasing ==
    \A i, j \in 1..Len(draws) :
        /\ draws[i].lo >= 0
        /\ draws[i].lo <= Humaniser(0).hi
        /\ (draws[i].x < draws[j].x => draws[j].lo <= draws[i].hi)

\* C15 as stated: with a maximum action count M >= 0 given, M = 0
\* included, the counter of a run that started at 0 never exceeds M and no
\* poll begins once the counter has reached M.
C15_NeverExceedsMax ==
    max_clicks # None =>
        /\ click_count <= Val(max_clicks)
        /\ (InLoopCall => click_count < Val(max_clicks))

\* C16: a run calls login exactly once and before any other Session call
\* or sleep; get_game_state and click are called only after login returned
\* True, and login is not called again after it returned False.
C16_LoginOnceFirst ==
    /\ calls.login = (IF pc = "NotStarted" THEN 0 ELSE 1)
    /\ (loginResult = None =>
            calls.get_game_state = 0 /\ calls.sleep = 0 /\ calls.click = 0)
    /\ (calls.get_game_state > 0 \/ calls.sleep > 0 \/ calls.click > 0 =>
            loginResult = Some(TRUE))
    /\ (loginResult = Some(FALSE) => pc = "Stopped")

C16_Witness ==
    /\ pc = "Acting"
    /\ calls.login = 1
    /\ loginResult = Some(TRUE)
    /\ calls.get_game_state = 3
    /\ calls.click = 2

\* C17 as stated: every get_game_state call is followed by a wait and a
\* click attempt before the next get_game_state call: never two more polls
\* than clicks started.
C17_FetchThenAct == calls.get_game_state <= calls.click + 1

\* the steps of run: the initial get_game_state between login and the
\* loop, the stop check between the click and the next poll, and the end
\* of the run from wherever it is
Steps ==
    {<< "NotStarted", "Authenticating" >>, << "Authenticating", "InitialState" >>,
     << "InitialState", "LoopTop" >>, << "LoopTop", "Polling" >>,
     << "Polling", "Waiting" >>, << "Waiting", "Acting" >>,
     << "Acting", "LoopTop" >>}
    \cup {<< p, "Stopped" >> : p \in {"Authenticating", "InitialState", "LoopTop",
                                      "Polling", "Waiting", "Acting"}}

\* the calls started so far, by where run is: one get_game_state before
\* the loop, then one get_game_state, one sleep and one click per iteration
Paired ==
    LET g == calls.get_game_state
        w == calls.sleep
        c == calls.click
    IN  CASE pc \in {"NotStarted", "Authenticating"} -> g = 0 /\ w = 0 /\ c = 0
          [] pc = "InitialState" -> g = 1 /\ w = 0 /\ c = 0
          [] pc = "LoopTop" -> g = c + 1 /\ w = c
          [] pc = "Polling" -> g = c + 2 /\ w = c
          [] pc = "Waiting" -> g = c + 2 /\ w = c + 1
          [] pc = "Acting" -> g = c + 1 /\ w = c
          [] pc = "Stopped" -> g <= c + 2 /\ w <= c + 1 /\ c <= w

\* C17 amended: run only takes the steps NotStarted -> Authenticating ->
\* initial get_game_state -> stop check -> Polling -> Waiting -> Acting ->
\* stop check, and from each of these but NotStarted to Stopped; the initial
\* get_game_state call is followed by the first poll without a wait or a
\* click between them, and in the loop every get_game_state call is followed
\* by exactly one wait and one click attempt before the next one, every click
\* being preceded in its iteration by exactly one get_game_state.
C17_StepsAndPairs ==
    [][ (<< pc, pc' >> \in Steps) /\ Paired' ]_vars

\* the second iteration's poll: three get_game_state calls, one click
C17_Witness ==
    /\ pc = "Polling"
    /\ calls.get_game_state = 3
    /\ calls.sleep = 1
    /\ calls.click = 1

\* the clock of the model can show that duration has elapsed since
\* start_time
Measurable ==
    \/ start_time = None
    \/ duration = None
    \/ Val(start_time) + Val(duration) <= MaxTime

\* C18 as stated: a run with duration T > 0 eventually is Stopped whatever
\* polls and clicks return; a run with only max_clicks given, 0 included,
\* eventually is Stopped when click calls keep returning True.
C18_EventuallyStopped ==
    /\ (pc # "NotStarted" /\ duration # None /\ Val(duration) > 0)
           ~> (pc = "Stopped" \/ ~Measurable)
    /\ SF_vars(ClickSucceeds) =>
           ((pc # "NotStarted" /\ max_clicks # None /\ duration = None)
                ~> pc = "Stopped")

\* the same for max_clicks >= 1
StopsWithinLimits ==
    /\ (pc # "NotStarted" /\ duration # None /\ Val(duration) > 0)
           ~> (pc = "Stopped" \/ ~Measurable)
    /\ SF_vars(ClickSucceeds) =>
           ((pc # "NotStarted" /\ Truthy(max_clicks) /\ duration = None)
                ~> pc = "Stopped")

\* C19: login, click or get_game_state called on a GameSession whose
\* client is None raises RuntimeError instead of returning, sends no request
\* and leaves self.cookies (and the client) as they were.
C19_NoClientRaises ==
    [][ (session.client = "None" /\ outcome' # None) =>
            /\ Val(outcome').raised = "RuntimeError"
            /\ requests' = requests
            /\ session' = session ]_vars

\* get_game_state has raised on a session without client that was given
\* cookies, after other sessions sent requests
C19_Witness ==
    /\ session = [client |-> "None", cookies |-> "given"]
    /\ outcome # None
    /\ Val(outcome).method = "get_game_state"
    /\ Val(outcome).raised = "RuntimeError"
    /\ requests = 2

====
